---- MODULE Spec2Model ----
(***************************************************************************)
(* Model of retinanet/train.py: train(), the training loop run by every    *)
(* worker of a (possibly distributed) run.  Each worker is a process whose *)
(* position in train() is pc[w]; worker 0 is the master (is_master).       *)
(* External calls (forward pass, infer, the profiler clock) are inputs     *)
(* drawn from small sets; their effects that train() observes are kept.    *)
(***************************************************************************)
EXTENDS Integers, Sequences, FiniteSets, TLC

\* ------------------------------------------------------------------ bounds
MaxIterations == 4      \* largest requested `iterations` of a run with one worker
MaxBatches == 2        \* largest number of batches in one pass of data_iterator
MaxValIterations == 2  \* largest `val_iterations`

\* distributed runs are followed for half as many iterations
MaxDistIterations == MaxIterations \div 2

\* ------------------------------------------------- constants of the source
Factor2 == 2           \* ReduceLROnPlateau(factor=0.5): lr is divided by 2
Patience == 2          \* ReduceLROnPlateau(patience=2)
ProfilerLimit == 2     \* profiler.totals['train'] > 2 (seconds)
ThresholdDen == 10000  \* ReduceLROnPlateau default threshold=1e-4, rel mode
ScalarsPerReport == 3  \* writer.add_scalar: focal_loss, box_loss, learning_rate
FloatMax == 3          \* largest finite loss: losses are counted in a unit u
                       \* with 3u <= the largest finite float < 4u

LrChoices == {16}        \* the `lr` argument, in units of eps = 1e-8 (scheduler eps)
ResumedLrChoices == {8}  \* the learning rate held by a resumed checkpoint
LrEps == 1             \* ReduceLROnPlateau default eps=1e-8, in the same unit
StartChoices == {0, 1}   \* state['iteration'] of a resumed checkpoint
Worlds == {1, 2}         \* the `world` argument: one worker, or a distributed run
F1Choices == {0, 1}      \* the non-string scores infer() may return
ElapsedChoices == {1, 3}   \* profiler.totals['train'] in seconds: below, above 2

VARIABLES
  \* parameters of train(), the same in every worker of a run
  world, iterations, val_annotations, val_iterations, mixed_precision, lr,
  logdir, metrics_url,
  nbatches,      \* len(data_iterator): batches yielded by one pass
  \* per worker (functions over Ranks)
  pc,            \* position in train()
  state,         \* the `state` dict
  iteration,     \* local `iteration`
  i,             \* batches taken from the current pass of data_iterator
  optimizer,     \* [lr, step]: param_groups[0]['lr'] (a ratio, in units of eps)
                 \* and Adam's step count
  scheduler,     \* ReduceLROnPlateau: [best_inf, best, num_bad_epochs]
  opt_level,     \* opt_level given to amp.initialize
  writer,        \* SummaryWriter: "none", "open", "closed"
  cls_loss, box_loss,      \* the locals cls_loss and box_loss: Tensor(v), the
                           \* Float of line 121, or Deleted
  cls_losses, box_losses,  \* the loss buffers
  reduce_cls, reduce_box,  \* the all_reduce in progress on cls_loss, on box_loss:
                           \* [sum, arrived, returned]
  exc,           \* exception raised in the try block: "none" or its kind
  calls,         \* number of calls of each external operation so far
  val_log,       \* the infer() calls: iteration, forward passes and steps so far
  last_save,     \* the last nn_model.save(state): the state saved and when
  f1_seen,       \* non-string scores infer() returned: best so far, stall count
  start          \* the value `iteration` had when the loop was entered

params == <<world, iterations, val_annotations, val_iterations, mixed_precision,
            lr, logdir, metrics_url, nbatches>>
collective == <<reduce_cls, reduce_box>>
locals == <<pc, state, iteration, i, optimizer, scheduler, opt_level, writer,
            cls_loss, box_loss, cls_losses, box_losses, exc>>
observed == <<calls, val_log, last_save, f1_seen>>
history == <<observed, start>>
vars == <<params, locals, collective, history>>

Ranks == 0 .. (world - 1)
is_master(w) == w = 0

\* ------------------------------------------------------------ helper values
NoCalls == [fw |-> 0, step |-> 0, all_reduce |-> 0, append |-> 0, report |-> 0,
            add_scalar |-> 0,
            state_update |-> 0, infer |-> 0, scheduler_step |-> 0, save |-> 0,
            print_exc |-> 0, close |-> 0]

\* exact fractions num/den in lowest terms (den = 0: not finite)
RECURSIVE GCD(_, _)
GCD(a, b) == IF b = 0 THEN a ELSE GCD(b, a % b)
Ratio(n, d) == IF d = 0 THEN [num |-> 1, den |-> 0]
               ELSE IF n = 0 THEN [num |-> 0, den |-> 1]
               ELSE [num |-> n \div GCD(n, d), den |-> d \div GCD(n, d)]

\* loss values are ratios, in the unit u
Loss(n) == Ratio(n, 1)
Inf == Ratio(1, 0)                   \* a loss that is not finite (inf or nan)
\* <<cls_loss, box_loss>> of a forward pass: 1 and 0 ordinary losses, 2 a huge
\* finite one (2 + 2 overflows), Inf a non-finite one
LossPairs == {<<Loss(1), Loss(0)>>, <<Loss(2), Loss(2)>>,
              <<Inf, Loss(0)>>, <<Loss(0), Inf>>}

\* what a local loss variable is bound to
Deleted == [kind |-> "deleted", num |-> 0, den |-> 1]  \* del cls_loss, box_loss
Tensor(v) == [kind |-> "tensor", num |-> v.num, den |-> v.den]  \* a tensor of value v
Float(r) == [kind |-> "float", num |-> r.num, den |-> r.den]    \* a Python float
Val(t) == [num |-> t.num, den |-> t.den]             \* the value of a loss

\* no all_reduce in progress
NoReduce == [sum |-> Loss(0), arrived |-> 0, returned |-> 0]

NewScheduler == [best_inf |-> TRUE, best |-> 0, num_bad_epochs |-> 0]

\* optimizer_live: state['optimizer'] came from optimizer.state_dict(), whose
\* per-parameter state (Adam's step) is the optimizer's own, not a copy
EmptyState == [has_iteration |-> FALSE, iteration |-> 0,
               has_optimizer |-> FALSE, optimizer |-> [lr |-> Ratio(0, 1), step |-> 0],
               optimizer_live |-> FALSE,
               has_scheduler |-> FALSE, scheduler |-> NewScheduler]

ResumedState(s, l) == [has_iteration |-> TRUE, iteration |-> s,
                       has_optimizer |-> TRUE,
                       optimizer |-> [lr |-> Ratio(l, 1), step |-> s],
                       optimizer_live |-> FALSE,
                       has_scheduler |-> TRUE, scheduler |-> NewScheduler]

InitialStates == {EmptyState}
                 \cup {ResumedState(s, l) : s \in StartChoices, l \in ResumedLrChoices}

NoSave == [saved |-> FALSE, at |-> 0, state |-> EmptyState]

\* ------------------------------------------------------------ pure helpers
\* opt_level='O0' if mixed_precision else 'O0'
OptLevel(mp) == IF mp THEN "O0" ELSE "O0"

\* state.get('iteration', 0)
StateGetIteration(st) == IF st.has_iteration THEN st.iteration ELSE 0

\* variant: the loop test written with <=
WhileCondInclusive(it, its) == it <= its

\* while iteration < iterations
WhileCond(it, its) == it < its

\* a + b in floating point: the sum overflows beyond the largest finite value
FAdd(a, b) ==
  IF a.den = 0 \/ b.den = 0 THEN Inf
  ELSE IF a.num * b.den + b.num * a.den > FloatMax * a.den * b.den THEN Inf
  ELSE Ratio(a.num * b.den + b.num * a.den, a.den * b.den)

\* isfinite(cls_loss + box_loss)
IsFinite(c, b) == FAdd(c, b) # Inf

\* variant: only cls_loss is tested
DivergingClsOnly(w, c, b) == is_master(w) /\ c = Inf

\* is_master and not isfinite(cls_loss + box_loss)
Diverging(w, c, b) == is_master(w) /\ ~IsFinite(c, b)

\* all_reduce(tensor), a worker calls it: its tensor is added to the sum
AllReduceCall(op, v) == [op EXCEPT !.sum = FAdd(@, v), !.arrived = @ + 1]

\* all_reduce returns in a worker once every worker has called it
AllReduceReady(op) == op.arrived = world

\* all_reduce(tensor), a worker returns from it with the sum in its tensor; the
\* operation is over when every worker has returned
AllReduceReturn(op) == IF op.returned + 1 = world THEN NoReduce
                       ELSE [op EXCEPT !.returned = @ + 1]

\* cls_loss /= world, box_loss /= world: a float division
DivWorld(v) == IF v.den = 0 THEN Inf ELSE Ratio(v.num, v.den * world)

\* torch.stack(list(losses)).mean().item()
RECURSIVE SumSeq(_)
SumSeq(q) == IF q = <<>> THEN Loss(0) ELSE FAdd(q[1], SumSeq(Tail(q)))
Mean(q) == IF SumSeq(q) = Inf THEN Inf
           ELSE Ratio(SumSeq(q).num, SumSeq(q).den * Len(q))

\* iteration += 1
NextIteration(it) == it + 1

\* is_master and (profiler.totals['train'] > 2 or iteration == iterations)
ReportCond(w, elapsed, it, its) == is_master(w) /\ (elapsed > ProfilerLimit \/ it = its)

\* lines 139-145: mean(cls_losses) is statistics.mean applied to the tensors of
\* the buffer, which raises TypeError (a tensor has no numerator/denominator)
\* before post_metrics is called
MetricsRaises(url) == url

\* iteration == iterations or iteration % val_iterations == 0
\* (evaluated only when val_iterations # 0 or the first disjunct is true)
ValCond(it, its, vi) == it = its \/ (vi # 0 /\ it % vi = 0)

\* the % of line 159 raises ZeroDivisionError
ValCondRaises(it, its, vi) == it # its /\ vi = 0

\* ReduceLROnPlateau.is_better, mode='min', threshold_mode='rel':
\* a < best * (1 - threshold)
IsBetter(a, sch) == sch.best_inf \/ a * ThresholdDen < sch.best * (ThresholdDen - 1)

\* ReduceLROnPlateau.step(metrics), cooldown=0
SchedulerStep(sch, f1) ==
  LET bad == IF IsBetter(f1, sch) THEN 0 ELSE sch.num_bad_epochs + 1
      best == IF IsBetter(f1, sch) THEN f1 ELSE sch.best
      inf == IF IsBetter(f1, sch) THEN FALSE ELSE sch.best_inf
  IN [best_inf |-> inf, best |-> best,
      num_bad_epochs |-> IF bad > Patience THEN 0 ELSE bad]

\* ReduceLROnPlateau._reduce_lr: new_lr = max(old_lr * factor, min_lr=0),
\* applied when old_lr - new_lr > eps
ReduceLr(old) ==
  IF old.num * (Factor2 - 1) > LrEps * Factor2 * old.den
  THEN Ratio(old.num, Factor2 * old.den) ELSE old

\* the learning rate after scheduler.step(f1)
LrAfterStep(sch, f1, old) ==
  IF (IF IsBetter(f1, sch) THEN 0 ELSE sch.num_bad_epochs + 1) > Patience
  THEN ReduceLr(old) ELSE old

\* state.update({'iteration': ..., 'optimizer': ..., 'scheduler': ...})
StateUpdate(st, it, opt, sch) ==
  [has_iteration |-> TRUE, iteration |-> it,
   has_optimizer |-> TRUE, optimizer |-> opt, optimizer_live |-> TRUE,
   has_scheduler |-> TRUE, scheduler |-> sch]

\* state['optimizer'] after optimizer.step(): it follows the optimizer's step
\* count once it holds the optimizer's own state
StateAfterStep(st, opt) ==
  IF st.optimizer_live THEN [st EXCEPT !.optimizer.step = opt.step] ELSE st

BumpBy(c, f, n) == [c EXCEPT ![f] = @ + n]
Bump(c, f) == BumpBy(c, f, 1)
BumpIf(c, f, cond) == IF cond THEN Bump(c, f) ELSE c

\* ---------------------------------------------------------------- Init
Init ==
  /\ world \in Worlds
  /\ iterations \in 0 .. (IF world = 1 THEN MaxIterations ELSE MaxDistIterations)
  /\ val_annotations \in BOOLEAN
  /\ val_iterations \in 0 .. MaxValIterations
  /\ mixed_precision \in BOOLEAN
  /\ lr \in LrChoices
  /\ logdir \in BOOLEAN
  /\ metrics_url \in BOOLEAN
  /\ nbatches \in 0 .. MaxBatches
  /\ \E st \in InitialStates : state = [w \in Ranks |-> st]
  /\ pc = [w \in Ranks |-> "setup"]
  /\ iteration = [w \in Ranks |-> 0]
  /\ i = [w \in Ranks |-> 0]
  /\ optimizer = [w \in Ranks |-> [lr |-> Ratio(lr, 1), step |-> 0]]
  /\ scheduler = [w \in Ranks |-> NewScheduler]
  /\ opt_level = [w \in Ranks |-> "none"]
  /\ writer = [w \in Ranks |-> "none"]
  /\ cls_loss = [w \in Ranks |-> Deleted]
  /\ box_loss = [w \in Ranks |-> Deleted]
  /\ cls_losses = [w \in Ranks |-> <<>>]
  /\ box_losses = [w \in Ranks |-> <<>>]
  /\ reduce_cls = NoReduce
  /\ reduce_box = NoReduce
  /\ exc = [w \in Ranks |-> "none"]
  /\ calls = [w \in Ranks |-> NoCalls]
  /\ val_log = [w \in Ranks |-> <<>>]
  /\ last_save = [w \in Ranks |-> NoSave]
  /\ f1_seen = [w \in Ranks |-> [any |-> FALSE, best |-> 0, stall |-> 0]]
  /\ start = [w \in Ranks |-> 0]

\* ---------------------------------------------------------------- actions
\* lines 22-78: model, optimizer, amp.initialize, scheduler, writer, iteration
Setup(w) ==
  /\ pc[w] = "setup"
  /\ opt_level' = [opt_level EXCEPT ![w] = OptLevel(mixed_precision)]
  /\ optimizer' = [optimizer EXCEPT ![w] =
                     IF state[w].has_optimizer THEN state[w].optimizer
                     ELSE [lr |-> Ratio(lr, 1), step |-> 0]]
  /\ scheduler' = [scheduler EXCEPT ![w] = NewScheduler]
  /\ writer' = [writer EXCEPT ![w] = IF logdir THEN "open" ELSE "none"]
  /\ iteration' = [iteration EXCEPT ![w] = StateGetIteration(state[w])]
  /\ start' = [start EXCEPT ![w] = StateGetIteration(state[w])]
  /\ pc' = [pc EXCEPT ![w] = "while"]
  /\ UNCHANGED <<params, state, i, cls_loss, box_loss, cls_losses, box_losses, exc,
                 collective, observed>>

\* lines 80-81: the test of the outer loop, and the start of a pass
While(w) ==
  /\ pc[w] = "while"
  /\ IF WhileCond(iteration[w], iterations)
     THEN /\ cls_losses' = [cls_losses EXCEPT ![w] = <<>>]
          /\ box_losses' = [box_losses EXCEPT ![w] = <<>>]
          /\ i' = [i EXCEPT ![w] = 0]
          /\ pc' = [pc EXCEPT ![w] = "for"]
     ELSE /\ pc' = [pc EXCEPT ![w] = "finally"]
          /\ UNCHANGED <<cls_losses, box_losses, i>>
  /\ UNCHANGED <<params, state, iteration, optimizer, scheduler, opt_level, writer,
                 cls_loss, box_loss, exc, collective, history>>

\* lines 82-100: next batch, forward pass, backward pass, optimizer.step();
\* with world > 1 the worker then calls all_reduce(cls_loss)
ForBatch(w) ==
  /\ pc[w] = "for"
  /\ IF i[w] < nbatches
     THEN /\ \E l \in LossPairs :
               /\ cls_loss' = [cls_loss EXCEPT ![w] = Tensor(l[1])]
               /\ box_loss' = [box_loss EXCEPT ![w] = Tensor(l[2])]
               /\ reduce_cls' = IF world > 1 THEN AllReduceCall(reduce_cls, l[1])
                                ELSE reduce_cls
          /\ i' = [i EXCEPT ![w] = @ + 1]
          /\ optimizer' = [optimizer EXCEPT ![w].step = @ + 1]
          /\ state' = [state EXCEPT ![w] = StateAfterStep(@, optimizer'[w])]
          /\ calls' = [calls EXCEPT ![w] =
                         BumpIf(Bump(Bump(@, "fw"), "step"), "all_reduce", world > 1)]
          /\ pc' = [pc EXCEPT ![w] = IF world > 1 THEN "all_reduce_cls" ELSE "losses"]
     ELSE /\ pc' = [pc EXCEPT ![w] = "while"]
          /\ UNCHANGED <<cls_loss, box_loss, reduce_cls, i, optimizer, state, calls>>
  /\ UNCHANGED <<params, iteration, scheduler, opt_level, writer, reduce_box,
                 cls_losses, box_losses, exc, val_log, last_save, f1_seen, start>>

\* line 102: all_reduce(cls_loss) returns in worker w, once every worker has
\* called it; the worker then calls all_reduce(box_loss)
AllReduceCls(w) ==
  /\ pc[w] = "all_reduce_cls"
  /\ AllReduceReady(reduce_cls)
  /\ cls_loss' = [cls_loss EXCEPT ![w] = Tensor(reduce_cls.sum)]
  /\ reduce_cls' = AllReduceReturn(reduce_cls)
  /\ reduce_box' = AllReduceCall(reduce_box, Val(box_loss[w]))
  /\ calls' = [calls EXCEPT ![w] = Bump(@, "all_reduce")]
  /\ pc' = [pc EXCEPT ![w] = "all_reduce_box"]
  /\ UNCHANGED <<params, state, iteration, i, optimizer, scheduler, opt_level, writer,
                 box_loss, cls_losses, box_losses, exc, val_log, last_save, f1_seen, start>>

\* lines 103-105: all_reduce(box_loss) returns in worker w, once every worker
\* has called it; the worker then divides both losses by world
AllReduceBox(w) ==
  /\ pc[w] = "all_reduce_box"
  /\ AllReduceReady(reduce_box)
  /\ cls_loss' = [cls_loss EXCEPT ![w] = Tensor(DivWorld(Val(@)))]
  /\ box_loss' = [box_loss EXCEPT ![w] = Tensor(DivWorld(reduce_box.sum))]
  /\ reduce_box' = AllReduceReturn(reduce_box)
  /\ pc' = [pc EXCEPT ![w] = "losses"]
  /\ UNCHANGED <<params, state, iteration, i, optimizer, scheduler, opt_level, writer,
                 reduce_cls, cls_losses, box_losses, exc, history>>

\* lines 106-157: loss buffers, divergence test, iteration += 1, progress report.
\* Line 114 deletes cls_loss and box_loss; line 121 binds box_loss again, to the
\* mean of the buffer, and line 137 deletes it only when logdir is given.
\* "report" counts the entries into the block of lines 120-157: the progress
\* line (if verbose), the TensorBoard scalars (if logdir), the metrics (if
\* metrics_url, where line 141 raises), then state.update, profiler.reset and
\* the buffers' reset.
Losses(w) ==
  /\ pc[w] = "losses"
  /\ LET appended == is_master(w)
         cl == IF appended THEN Append(cls_losses[w], Val(cls_loss[w]))
               ELSE cls_losses[w]
         bl == IF appended THEN Append(box_losses[w], Val(box_loss[w]))
               ELSE box_losses[w]
     IN IF Diverging(w, Val(cls_loss[w]), Val(box_loss[w]))
        THEN /\ cls_losses' = [cls_losses EXCEPT ![w] = cl]
             /\ box_losses' = [box_losses EXCEPT ![w] = bl]
             /\ exc' = [exc EXCEPT ![w] = "RuntimeError"]
             /\ pc' = [pc EXCEPT ![w] = "except"]
             /\ calls' = [calls EXCEPT ![w] = BumpIf(@, "append", appended)]
             /\ UNCHANGED <<state, iteration, cls_loss, box_loss>>
        ELSE \E elapsed \in ElapsedChoices :
             LET it == NextIteration(iteration[w])
                 rep == ReportCond(w, elapsed, it, iterations)
                 raised == rep /\ MetricsRaises(metrics_url)
                 updated == rep /\ ~raised
             IN /\ iteration' = [iteration EXCEPT ![w] = it]
                /\ cls_loss' = [cls_loss EXCEPT ![w] = Deleted]
                /\ box_loss' = [box_loss EXCEPT ![w] =
                                  IF rep /\ ~logdir THEN Float(Mean(bl)) ELSE Deleted]
                /\ cls_losses' = [cls_losses EXCEPT ![w] = IF updated THEN <<>> ELSE cl]
                /\ box_losses' = [box_losses EXCEPT ![w] = IF updated THEN <<>> ELSE bl]
                /\ state' = [state EXCEPT ![w] =
                               IF updated
                               THEN StateUpdate(@, it, optimizer[w], scheduler[w])
                               ELSE @]
                /\ calls' = [calls EXCEPT ![w] =
                     BumpIf(BumpBy(BumpIf(BumpIf(@,
                       "append", appended),
                       "report", rep),
                       "add_scalar", IF rep /\ logdir THEN ScalarsPerReport ELSE 0),
                       "state_update", updated)]
                /\ exc' = [exc EXCEPT ![w] = IF raised THEN "TypeError" ELSE @]
                /\ pc' = [pc EXCEPT ![w] = IF raised THEN "except" ELSE "validate"]
  /\ UNCHANGED <<params, i, optimizer, scheduler, opt_level, writer, collective,
                 val_log, last_save, f1_seen, start>>

\* lines 159-174: validation, scheduler step, checkpoint, end of the run
Validate(w) ==
  /\ pc[w] = "validate"
  /\ LET it == iteration[w]
         leave == IF it = iterations THEN "while" ELSE "for"
     IN IF ~val_annotations
        THEN /\ pc' = [pc EXCEPT ![w] = leave]
             /\ UNCHANGED <<optimizer, scheduler, exc, observed>>
        ELSE IF ValCondRaises(it, iterations, val_iterations)
        THEN /\ exc' = [exc EXCEPT ![w] = "ZeroDivisionError"]
             /\ pc' = [pc EXCEPT ![w] = "except"]
             /\ UNCHANGED <<optimizer, scheduler, observed>>
        ELSE IF ~ValCond(it, iterations, val_iterations)
        THEN /\ pc' = [pc EXCEPT ![w] = leave]
             /\ UNCHANGED <<optimizer, scheduler, exc, observed>>
        ELSE \E is_str \in BOOLEAN, f1_m \in F1Choices :
             LET stepped == ~is_str
                 key_error == is_master(w) /\ ~state[w].has_iteration
                 saving == is_master(w) /\ ~key_error
                 sch == IF stepped THEN SchedulerStep(scheduler[w], f1_m)
                        ELSE scheduler[w]
                 new_lr == IF stepped
                           THEN LrAfterStep(scheduler[w], f1_m, optimizer[w].lr)
                           ELSE optimizer[w].lr
                 improved == ~f1_seen[w].any \/ f1_m > f1_seen[w].best
             IN /\ (is_str => f1_m = 0)
                /\ val_log' = [val_log EXCEPT ![w] =
                     Append(@, [iteration |-> it, fw |-> calls[w].fw,
                                step |-> calls[w].step])]
                /\ scheduler' = [scheduler EXCEPT ![w] = sch]
                /\ optimizer' = [optimizer EXCEPT ![w].lr = new_lr]
                /\ f1_seen' = [f1_seen EXCEPT ![w] =
                     IF ~stepped THEN @
                     ELSE IF improved THEN [any |-> TRUE, best |-> f1_m, stall |-> 0]
                     ELSE [@ EXCEPT !.stall = @ + 1]]
                /\ calls' = [calls EXCEPT ![w] =
                     BumpIf(BumpIf(Bump(@, "infer"),
                       "scheduler_step", stepped),
                       "save", saving)]
                /\ last_save' = [last_save EXCEPT ![w] =
                     IF saving THEN [saved |-> TRUE, at |-> it, state |-> state[w]]
                     ELSE @]
                /\ exc' = [exc EXCEPT ![w] = IF key_error THEN "KeyError" ELSE @]
                /\ pc' = [pc EXCEPT ![w] = IF key_error THEN "except" ELSE leave]
  /\ UNCHANGED <<params, state, iteration, i, opt_level, writer, collective,
                 cls_loss, box_loss, cls_losses, box_losses, start>>

\* lines 175-176: except Exception as e: print(e)
Except(w) ==
  /\ pc[w] = "except"
  /\ calls' = [calls EXCEPT ![w] = Bump(@, "print_exc")]
  /\ pc' = [pc EXCEPT ![w] = "finally"]
  /\ UNCHANGED <<params, state, iteration, i, optimizer, scheduler, opt_level, writer,
                 cls_loss, box_loss, cls_losses, box_losses, exc, collective,
                 val_log, last_save, f1_seen, start>>

\* lines 178-179: writer.close(), then train() returns
Finally(w) ==
  /\ pc[w] = "finally"
  /\ writer' = [writer EXCEPT ![w] = IF logdir THEN "closed" ELSE @]
  /\ calls' = [calls EXCEPT ![w] = BumpIf(@, "close", logdir)]
  /\ pc' = [pc EXCEPT ![w] = "done"]
  /\ UNCHANGED <<params, state, iteration, i, optimizer, scheduler, opt_level,
                 cls_loss, box_loss, cls_losses, box_losses, exc, collective,
                 val_log, last_save, f1_seen, start>>

Next ==
  \/ \E w \in Ranks : Setup(w)
  \/ \E w \in Ranks : While(w)
  \/ \E w \in Ranks : ForBatch(w)
  \/ \E w \in Ranks : AllReduceCls(w)
  \/ \E w \in Ranks : AllReduceBox(w)
  \/ \E w \in Ranks : Losses(w)
  \/ \E w \in Ranks : Validate(w)
  \/ \E w \in Ranks : Except(w)
  \/ \E w \in Ranks : Finally(w)

Spec == Init /\ [][Next]_vars

\* Every worker is a running process: it takes its next step when it can, and
\* returns from a collective once every worker has entered it.
Worker(w) == w \in Ranks /\ (Setup(w) \/ While(w) \/ ForBatch(w)
                              \/ AllReduceCls(w) \/ AllReduceBox(w) \/ Losses(w)
                              \/ Validate(w) \/ Except(w) \/ Finally(w))
Fairness == \A w \in Worlds : WF_vars(Worker(w - 1))
FairSpec == Init /\ [][Next]_vars /\ Fairness

\* ------------------------------------------------------------ vocabulary
Max(a, b) == IF a >= b THEN a ELSE b
Entered(w) == pc[w] # "setup"
InAllReduce(w) == pc[w] \in {"all_reduce_cls", "all_reduce_box"}
Stopped(w) == pc[w] \in {"except", "finally", "done"}
\* w is inside an all_reduce that the stopped worker v has never called
Blocked(w, v) == InAllReduce(w) /\ Stopped(v)
                 /\ calls[v].all_reduce < calls[w].all_reduce
\* the iterations whose validation is due and, for worker w, already passed
DueValidations(w) ==
  {k \in (start[w] + 1) .. iteration[w] :
     /\ (k = iterations \/ k % val_iterations = 0)
     /\ ~(k = iteration[w] /\ pc[w] = "validate")}
Validated(w) == {val_log[w][j].iteration : j \in 1 .. Len(val_log[w])}

\* C1: with val_annotations and val_iterations > 0, every worker has run infer
\* exactly once for each completed iteration k with k % val_iterations = 0 or
\* k = iterations, and for no other; each infer ran when exactly k - start
\* forward passes and optimizer steps had been made (after the step of
\* iteration k, before the forward pass of iteration k + 1).
C1_ValidationSchedule ==
  \A w \in Ranks :
    (val_annotations /\ val_iterations > 0 /\ Entered(w)) =>
      /\ Validated(w) = DueValidations(w)
      /\ Len(val_log[w]) = Cardinality(DueValidations(w))
      /\ calls[w].infer = Len(val_log[w])
      /\ \A j \in 1 .. Len(val_log[w]) :
           /\ val_log[w][j].step = val_log[w][j].iteration - start[w]
           /\ val_log[w][j].fw = val_log[w][j].iteration - start[w]

\* C2: a run of the master that completed its iterations without error saved
\* the model at least once, the last time after the final iteration.
C2_SaveOnCompletion ==
  (/\ pc[0] = "done" /\ exc[0] = "none"
   /\ calls[0].step > 0 /\ iteration[0] = iterations)
  => (last_save[0].saved /\ last_save[0].at = iterations)

\* C3: after setup the learning rate changes only in a scheduler step that
\* follows a non-string validation score; it is then halved, and only when the
\* F1 score has failed to improve on its best value for more than 2
\* consecutive validations; it never increases.
C3_LrOnPlateauOnly ==
  [][\A w \in Ranks :
       (Entered(w) /\ optimizer'[w].lr # optimizer[w].lr) =>
         /\ pc[w] = "validate"
         /\ calls'[w].scheduler_step = calls[w].scheduler_step + 1
         /\ optimizer'[w].lr = Ratio(optimizer[w].lr.num, Factor2 * optimizer[w].lr.den)
         /\ f1_seen'[w].stall > Patience]_vars

\* C4: with mixed_precision the level given to amp.initialize is not 'O0',
\* the level given without it.
C4_MixedPrecisionLevel ==
  \A w \in Ranks : (Entered(w) /\ mixed_precision) => opt_level[w] # "O0"

\* C5: a worker that is not the master never appends to the loss buffers,
\* never runs the progress report (progress line, TensorBoard scalars, posted
\* metrics), never updates state and never saves; the master runs the report
\* and updates state when it completes the final iteration, whatever the
\* elapsed time.
C5_MasterOnlyReporting ==
  /\ [](\A w \in Ranks : ~is_master(w) =>
          /\ calls[w].append = 0 /\ calls[w].report = 0
          /\ calls[w].add_scalar = 0 /\ calls[w].state_update = 0
          /\ calls[w].save = 0 /\ ~last_save[w].saved
          /\ cls_losses[w] = <<>> /\ box_losses[w] = <<>>)
  /\ [][\A w \in Ranks :
         /\ (~is_master(w) => state'[w] = state[w])
         /\ (is_master(w) /\ iteration'[w] # iteration[w] /\ Entered(w)
              /\ iteration'[w] = iterations) =>
               /\ calls'[w].report = calls[w].report + 1
               /\ calls'[w].state_update = calls[w].state_update + 1
               /\ state'[w].has_iteration /\ state'[w].iteration = iterations
               /\ cls_losses'[w] = <<>>]_vars

\* C6: an error-free run makes exactly max(0, iterations - start) optimizer
\* steps, one per batch; the counter grows by one per step, is not reset
\* between passes and never exceeds max(start, iterations).
C6_IterationCount ==
  \A w \in Ranks :
    Entered(w) =>
      /\ iteration[w] <= Max(start[w], iterations)
      /\ calls[w].fw = calls[w].step
      /\ exc[w] = "none" =>
           /\ iteration[w] + (IF InAllReduce(w) \/ pc[w] = "losses" THEN 1 ELSE 0)
                = start[w] + calls[w].step
           /\ pc[w] = "done" => calls[w].step = Max(0, iterations - start[w])

\* a resumed run that needed three passes over a one-batch iterator
C6_Witness ==
  \E w \in Ranks :
    /\ pc[w] = "done" /\ exc[w] = "none" /\ nbatches = 1
    /\ start[w] = 1 /\ calls[w].step = 3 /\ iterations = 4

\* C7: when the master's aggregated loss is not finite, a RuntimeError is
\* raised and the counter is not incremented; afterwards the worker makes no
\* optimizer step, report, validation or save; the error is printed and
\* train returns normally, with the writer closed when logdir was given.
C7_DivergenceStops ==
  /\ [][\A w \in Ranks :
         /\ (/\ pc[w] = "losses" /\ pc'[w] # "losses" /\ is_master(w)
              /\ ~IsFinite(Val(cls_loss[w]), Val(box_loss[w]))) =>
               /\ pc'[w] = "except" /\ exc'[w] = "RuntimeError"
               /\ iteration'[w] = iteration[w]
         /\ exc[w] = "RuntimeError" =>
               /\ exc'[w] = exc[w] /\ iteration'[w] = iteration[w]
               /\ calls'[w].fw = calls[w].fw /\ calls'[w].step = calls[w].step
               /\ calls'[w].report = calls[w].report
               /\ calls'[w].infer = calls[w].infer
               /\ calls'[w].save = calls[w].save
               /\ pc'[w] \in {"except", "finally", "done"}]_vars
  /\ [](\A w \in Ranks :
          exc[w] = "RuntimeError" =>
            /\ pc[w] \in {"except", "finally", "done"}
            /\ pc[w] \in {"finally", "done"} => calls[w].print_exc = 1
            /\ (pc[w] = "done" /\ logdir) =>
                 (writer[w] = "closed" /\ calls[w].close = 1))

\* the master diverged in its second iteration and returned, writer closed
C7_Witness ==
  /\ exc[0] = "RuntimeError" /\ pc[0] = "done" /\ calls[0].step = 2
  /\ iteration[0] = start[0] + 1 /\ logdir /\ writer[0] = "closed"

\* C8: train eventually returns in every worker.
C8_Terminates == <>(\A w \in Ranks : pc[w] = "done")

\* C9: no worker waits in an all_reduce that a worker which has left the loop
\* never calls, and workers that have returned made the same number of steps
\* and all_reduce calls.
C9_LockStep ==
  \A w \in Ranks, v \in Ranks :
    /\ ~Blocked(w, v)
    /\ (pc[w] = "done" /\ pc[v] = "done") =>
         /\ calls[w].step = calls[v].step
         /\ calls[w].all_reduce = calls[v].all_reduce

\* C10: the state given to nn_model.save has an 'iteration' entry equal to the
\* number of iterations completed when it is saved, and the optimizer state
\* captured at that iteration.
C10_SavedStateCurrent ==
  \A w \in Ranks :
    last_save[w].saved =>
      /\ last_save[w].state.has_iteration
      /\ last_save[w].state.iteration = last_save[w].at
      /\ last_save[w].state.optimizer.step = last_save[w].at

====
